---- MODULE Spec2Model ----
(***************************************************************************)
(* The compliance token ledger of pallet-clad-token together with the      *)
(* admin origin the runtime configures for it.                             *)
(*                                                                         *)
(* Storage cells are the variables; each dispatchable is a pure operator   *)
(* from (storage, origin, arguments) to an outcome (result, new storage,   *)
(* deposited events), applied by one action.  The variables call, result   *)
(* and events record the invocation being delivered, its DispatchResult    *)
(* and the events it deposited; the dispatcher delivers invocations one    *)
(* at a time and takes the next one once the current one has returned.     *)
(* rotated_out is a history variable: the outgoing admin of the last       *)
(* admin rotation, kept only by the specification that follows rotations.  *)
(* frozen_receiver is a history variable too: the last account that was    *)
(* credited by a transfer while frozen and has stayed frozen since, kept   *)
(* only by the specification that follows frozen receivers.                *)
(* unlisted_mint is a history variable too: the account of the last mint   *)
(* of one unit to an account that was not whitelisted, and whether         *)
(* add_to_whitelist has succeeded for the account since, until the account *)
(* sends a transfer; kept only by the specification that follows such      *)
(* mints.                                                                  *)
(* on_chain_storage_version is the storage version the pallet has on       *)
(* chain; genesis puts the version of the code, and the specification of   *)
(* the migration starts from the versions other runtimes may have put.     *)
(***************************************************************************)
EXTENDS Integers, Sequences, FiniteSets, TLC

VARIABLES TotalSupply, Balances, Frozen, Whitelist, Admin,
          TokenName, TokenSymbol, Decimals,
          call, result, events,
          rotated_out, frozen_receiver, unlisted_mint,
          on_chain_storage_version

vars == <<TotalSupply, Balances, Frozen, Whitelist, Admin,
          TokenName, TokenSymbol, Decimals, call, result, events,
          rotated_out, frozen_receiver, unlisted_mint,
          on_chain_storage_version>>

ledger == <<TotalSupply, Balances, Frozen, Whitelist, Admin>>

metadata == <<TokenName, TokenSymbol, Decimals>>

(***************************************************************************)
(* Bounds of the model.                                                    *)
(***************************************************************************)
\* u128::MAX scaled down: amounts, balances and the supply are 0..U128_MAX.
U128_MAX == 2

\* Longest initial_balances list of a genesis configuration.
MaxInitialBalances == 2

\* Longest whitelisted_accounts list of a genesis configuration.
MaxWhitelisted == 1

\* Largest on-chain storage version that a chain is upgraded from.
MaxStorageVersion == 2

(***************************************************************************)
(* Accounts, origins, optional values.                                     *)
(***************************************************************************)
\* The compile-time fallback admin of the runtime (Alice's account).
CladTokenAdmin == "Alice"

AccountId == {"Alice", "Bob", "Charlie"}

\* Option::None for the Admin cell and for GenesisConfig::admin.
None == "None"

\* checked_add's None.
NoValue == -1

Root == [kind |-> "Root", who |-> None]

NoOrigin == [kind |-> "None", who |-> None]

Signed(who) == [kind |-> "Signed", who |-> who]

RuntimeOrigin == {Root, NoOrigin} \cup {Signed(a) : a \in AccountId}

u128 == 0..U128_MAX

(***************************************************************************)
(* u128 arithmetic.                                                        *)
(***************************************************************************)
checked_add(a, b) == IF a + b > U128_MAX THEN NoValue ELSE a + b

\* An addition that wraps around.
saturating_add_wrapping(a, b) == (a + b) % (U128_MAX + 1)

saturating_add(a, b) == IF a + b > U128_MAX THEN U128_MAX ELSE a + b

RECURSIVE SumOver(_, _)
SumOver(B, S) ==
    IF S = {} THEN 0
    ELSE LET a == CHOOSE x \in S : TRUE IN B[a] + SumOver(B, S \ {a})

\* The sum of Balances[a] over all accounts.
SumBalances(B) == SumOver(B, AccountId)

(***************************************************************************)
(* The storage as one value, and outcomes of a dispatchable.               *)
(***************************************************************************)
Storage ==
    [TotalSupply |-> TotalSupply, Balances |-> Balances, Frozen |-> Frozen,
     Whitelist |-> Whitelist, Admin |-> Admin]

Ok(s, evs) == [result |-> "Ok", storage |-> s, events |-> evs]

Err(s, e) == [result |-> e, storage |-> s, events |-> <<>>]

(***************************************************************************)
(* Storage migrations.                                                     *)
(***************************************************************************)
\* The storage version of the code.
STORAGE_VERSION == 1

\* A migration that puts version 1 without reading the version on chain.
MigrateToV1_always_puts(on_chain_version) ==
    [version |-> 1, weight |-> "reads_writes(1, 1)"]

\* v1::MigrateToV1::on_runtime_upgrade: the version on chain after the
\* migration and the weight returned.
MigrateToV1(on_chain_version) ==
    IF on_chain_version < 1
    THEN [version |-> 1, weight |-> "reads_writes(1, 1)"]
    ELSE [version |-> on_chain_version, weight |-> "reads(1)"]

(***************************************************************************)
(* Authority resolution (runtime).                                         *)
(***************************************************************************)
\* frame_system::ensure_signed
ensure_signed(o) == o.kind = "Signed"

EnsureRoot(o) == o.kind = "Root"

\* A storage admin check that accepts any signer once an admin is stored.
EnsureStorageAdmin_anySigner(o, admin) ==
    IF admin # None
    THEN o.kind = "Signed"
    ELSE FALSE

EnsureStorageAdmin(o, admin) ==
    IF admin # None
    THEN o.kind = "Signed" /\ o.who = admin
    ELSE FALSE

\* A fallback check that accepts any signer.
EnsureSignedBy_anySigner(o) == o.kind = "Signed"

\* EnsureSignedBy<CladTokenAdmin, AccountId>
EnsureSignedBy(o) == o.kind = "Signed" /\ o.who = CladTokenAdmin

\* EitherOfDiverse<L, R>: L is tried first, R when L rejects.
EitherOfDiverse(l, r) == IF l THEN TRUE ELSE r

\* The admin origin without the storage admin: root or the fallback account.
CladTokenAdminOrigin_noStorage(o, admin) ==
    EitherOfDiverse(EnsureRoot(o), EnsureSignedBy(o))

\* The admin origin without root: the storage admin or the fallback account.
CladTokenAdminOrigin_noRoot(o, admin) ==
    EitherOfDiverse(EnsureStorageAdmin(o, admin), EnsureSignedBy(o))

CladTokenAdminOrigin(o, admin) ==
    EitherOfDiverse(EnsureRoot(o),
                    EitherOfDiverse(EnsureStorageAdmin(o, admin), EnsureSignedBy(o)))

\* An admin origin that also asks a signer to be whitelisted and not frozen.
AdminOrigin_requires_good_standing(o, s) ==
    /\ CladTokenAdminOrigin(o, s.Admin)
    /\ o.kind = "Signed" => (s.Whitelist[o.who] /\ ~s.Frozen[o.who])

\* T::AdminOrigin::ensure_origin
AdminOrigin(o, s) == CladTokenAdminOrigin(o, s.Admin)

(***************************************************************************)
(* Dispatchables.                                                          *)
(***************************************************************************)
\* A mint that credits the account and forgets to book the supply.
mint_no_supply_write(s, origin, to, amount) ==
    IF ~AdminOrigin(origin, s) THEN Err(s, "BadOrigin")
    ELSE LET new_supply == checked_add(s.TotalSupply, amount)
             new_balance == checked_add(s.Balances[to], amount)
         IN IF new_supply = NoValue THEN Err(s, "Overflow")
            ELSE IF new_balance = NoValue THEN Err(s, "Overflow")
            ELSE Ok([s EXCEPT !.Balances[to] = new_balance],
                    <<[type |-> "Minted", to |-> to, amount |-> amount]>>)

\* A mint that saturates the supply instead of checking it.
mint_no_supply_check(s, origin, to, amount) ==
    IF ~AdminOrigin(origin, s) THEN Err(s, "BadOrigin")
    ELSE LET new_supply == saturating_add(s.TotalSupply, amount)
             new_balance == checked_add(s.Balances[to], amount)
         IN IF new_balance = NoValue THEN Err(s, "Overflow")
            ELSE Ok([s EXCEPT !.TotalSupply = new_supply,
                              !.Balances[to] = new_balance],
                    <<[type |-> "Minted", to |-> to, amount |-> amount]>>)

\* A mint whose new supply saturates.
mint_saturating_supply(s, origin, to, amount) ==
    IF ~AdminOrigin(origin, s) THEN Err(s, "BadOrigin")
    ELSE LET new_supply == saturating_add(s.TotalSupply, amount)
             new_balance == checked_add(s.Balances[to], amount)
         IN IF new_balance = NoValue THEN Err(s, "Overflow")
            ELSE Ok([s EXCEPT !.TotalSupply = new_supply,
                              !.Balances[to] = new_balance],
                    <<[type |-> "Minted", to |-> to, amount |-> amount]>>)

\* A mint that asks for a whitelisted receiver.
mint_requires_whitelist(s, origin, to, amount) ==
    IF ~AdminOrigin(origin, s) THEN Err(s, "BadOrigin")
    ELSE IF ~s.Whitelist[to] THEN Err(s, "NotWhitelisted")
    ELSE LET new_supply == checked_add(s.TotalSupply, amount)
             new_balance == checked_add(s.Balances[to], amount)
         IN IF new_supply = NoValue THEN Err(s, "Overflow")
            ELSE IF new_balance = NoValue THEN Err(s, "Overflow")
            ELSE Ok([s EXCEPT !.TotalSupply = new_supply,
                              !.Balances[to] = new_balance],
                    <<[type |-> "Minted", to |-> to, amount |-> amount]>>)

\* A mint that credits the balance before it checks the supply.
mint_credits_before_check(s, origin, to, amount) ==
    IF ~AdminOrigin(origin, s) THEN Err(s, "BadOrigin")
    ELSE LET new_supply == checked_add(s.TotalSupply, amount)
             new_balance == checked_add(s.Balances[to], amount)
         IN IF new_balance = NoValue THEN Err(s, "Overflow")
            ELSE IF new_supply = NoValue
                 THEN Err([s EXCEPT !.Balances[to] = new_balance], "Overflow")
            ELSE Ok([s EXCEPT !.TotalSupply = new_supply,
                              !.Balances[to] = new_balance],
                    <<[type |-> "Minted", to |-> to, amount |-> amount]>>)

mint(s, origin, to, amount) ==
    IF ~AdminOrigin(origin, s) THEN Err(s, "BadOrigin")
    ELSE LET new_supply == checked_add(s.TotalSupply, amount)
             new_balance == checked_add(s.Balances[to], amount)
         IN IF new_supply = NoValue THEN Err(s, "Overflow")
            ELSE IF new_balance = NoValue THEN Err(s, "Overflow")
            ELSE Ok([s EXCEPT !.TotalSupply = new_supply,
                              !.Balances[to] = new_balance],
                    <<[type |-> "Minted", to |-> to, amount |-> amount]>>)

\* A transfer with the frozen check left out.
transfer_checks_no_frozen(s, sender, to, amount) ==
    IF ~s.Whitelist[sender] THEN "NotWhitelisted"
    ELSE IF ~s.Whitelist[to] THEN "NotWhitelisted"
    ELSE IF ~(s.Balances[sender] >= amount) THEN "InsufficientBalance"
    ELSE "Ok"

\* A transfer that does not look at the receiver's whitelist entry.
transfer_checks_no_receiver(s, sender, to, amount) ==
    IF ~s.Whitelist[sender] THEN "NotWhitelisted"
    ELSE IF s.Frozen[sender] THEN "AccountFrozen"
    ELSE IF ~(s.Balances[sender] >= amount) THEN "InsufficientBalance"
    ELSE "Ok"

\* A transfer that looks at the balance before the frozen flag.
transfer_checks_frozen_last(s, sender, to, amount) ==
    IF ~s.Whitelist[sender] THEN "NotWhitelisted"
    ELSE IF ~s.Whitelist[to] THEN "NotWhitelisted"
    ELSE IF ~(s.Balances[sender] >= amount) THEN "InsufficientBalance"
    ELSE IF s.Frozen[sender] THEN "AccountFrozen"
    ELSE "Ok"

\* A transfer that looks at the balance before it looks at the frozen set.
transfer_checks_balance_first(s, sender, to, amount) ==
    IF ~s.Whitelist[sender] THEN "NotWhitelisted"
    ELSE IF ~s.Whitelist[to] THEN "NotWhitelisted"
    ELSE IF ~(s.Balances[sender] >= amount) THEN "InsufficientBalance"
    ELSE IF s.Frozen[sender] THEN "AccountFrozen"
    ELSE "Ok"

\* A transfer that refuses the amount 0.
transfer_checks_nonzero(s, sender, to, amount) ==
    IF ~s.Whitelist[sender] THEN "NotWhitelisted"
    ELSE IF ~s.Whitelist[to] THEN "NotWhitelisted"
    ELSE IF s.Frozen[sender] THEN "AccountFrozen"
    ELSE IF ~(s.Balances[sender] >= amount /\ amount > 0)
         THEN "InsufficientBalance"
    ELSE "Ok"

\* A transfer that asks for more than the amount on the sender's balance.
transfer_checks_strict_balance(s, sender, to, amount) ==
    IF ~s.Whitelist[sender] THEN "NotWhitelisted"
    ELSE IF ~s.Whitelist[to] THEN "NotWhitelisted"
    ELSE IF s.Frozen[sender] THEN "AccountFrozen"
    ELSE IF ~(s.Balances[sender] > amount) THEN "InsufficientBalance"
    ELSE "Ok"

\* A transfer that refuses a frozen receiver as well as a frozen sender.
transfer_checks_frozen_receiver(s, sender, to, amount) ==
    IF ~s.Whitelist[sender] THEN "NotWhitelisted"
    ELSE IF ~s.Whitelist[to] THEN "NotWhitelisted"
    ELSE IF s.Frozen[sender] \/ s.Frozen[to] THEN "AccountFrozen"
    ELSE IF ~(s.Balances[sender] >= amount) THEN "InsufficientBalance"
    ELSE "Ok"

\* The ensure! lines of transfer, in their order.
transfer_checks(s, sender, to, amount) ==
    IF ~s.Whitelist[sender] THEN "NotWhitelisted"
    ELSE IF ~s.Whitelist[to] THEN "NotWhitelisted"
    ELSE IF s.Frozen[sender] THEN "AccountFrozen"
    ELSE IF ~(s.Balances[sender] >= amount) THEN "InsufficientBalance"
    ELSE "Ok"

\* A transfer that credits the receiver and forgets to debit the sender.
transfer_writes_no_debit(s, sender, to, amount, new_receiver_balance) ==
    [s EXCEPT !.Balances[to] = new_receiver_balance]

\* A transfer that also books the amount on the supply, as mint does.
transfer_writes_supply(s, sender, to, amount, new_receiver_balance) ==
    [s EXCEPT !.TotalSupply = saturating_add(s.TotalSupply, amount),
              !.Balances =
                  [[s.Balances EXCEPT ![sender] = s.Balances[sender] - amount]
                      EXCEPT ![to] = new_receiver_balance]]

\* A transfer that takes the amount from the receiver too.
transfer_writes_debits_receiver(s, sender, to, amount, new_receiver_balance) ==
    [s EXCEPT !.Balances =
        [[s.Balances EXCEPT ![sender] = s.Balances[sender] - amount]
            EXCEPT ![to] = IF s.Balances[to] >= amount
                           THEN s.Balances[to] - amount
                           ELSE 0]]

\* The two Balances::insert of transfer.
transfer_writes(s, sender, to, amount, new_receiver_balance) ==
    [s EXCEPT !.Balances =
        [[s.Balances EXCEPT ![sender] = s.Balances[sender] - amount]
            EXCEPT ![to] = new_receiver_balance]]

\* A transfer without the branch for sender = to.
transfer_no_self_branch(s, origin, to, amount) ==
    IF ~ensure_signed(origin) THEN Err(s, "BadOrigin")
    ELSE LET sender == origin.who
             check == transfer_checks(s, sender, to, amount)
             new_receiver_balance == checked_add(s.Balances[to], amount)
             ev == [type |-> "Transferred", from |-> sender, to |-> to,
                    amount |-> amount]
         IN IF check # "Ok" THEN Err(s, check)
            ELSE IF new_receiver_balance = NoValue THEN Err(s, "Overflow")
            ELSE Ok(transfer_writes(s, sender, to, amount, new_receiver_balance),
                    <<ev>>)

transfer(s, origin, to, amount) ==
    IF ~ensure_signed(origin) THEN Err(s, "BadOrigin")
    ELSE LET sender == origin.who
             check == transfer_checks(s, sender, to, amount)
             new_receiver_balance == checked_add(s.Balances[to], amount)
             ev == [type |-> "Transferred", from |-> sender, to |-> to,
                    amount |-> amount]
         IN IF check # "Ok" THEN Err(s, check)
            ELSE IF sender = to THEN Ok(s, <<ev>>)
            ELSE IF new_receiver_balance = NoValue THEN Err(s, "Overflow")
            ELSE Ok(transfer_writes(s, sender, to, amount, new_receiver_balance),
                    <<ev>>)

\* A freeze that refuses an account that is frozen already.
freeze_rejects_frozen(s, origin, account) ==
    IF ~AdminOrigin(origin, s) THEN Err(s, "BadOrigin")
    ELSE IF s.Frozen[account] THEN Err(s, "AccountFrozen")
    ELSE Ok([s EXCEPT !.Frozen[account] = TRUE],
            <<[type |-> "Frozen", account |-> account]>>)

\* A freeze that deposits no event.
freeze_no_event(s, origin, account) ==
    IF ~AdminOrigin(origin, s) THEN Err(s, "BadOrigin")
    ELSE Ok([s EXCEPT !.Frozen[account] = TRUE], <<>>)

freeze(s, origin, account) ==
    IF ~AdminOrigin(origin, s) THEN Err(s, "BadOrigin")
    ELSE Ok([s EXCEPT !.Frozen[account] = TRUE],
            <<[type |-> "Frozen", account |-> account]>>)

unfreeze(s, origin, account) ==
    IF ~AdminOrigin(origin, s) THEN Err(s, "BadOrigin")
    ELSE Ok([s EXCEPT !.Frozen[account] = FALSE],
            <<[type |-> "Unfrozen", account |-> account]>>)

add_to_whitelist(s, origin, account) ==
    IF ~AdminOrigin(origin, s) THEN Err(s, "BadOrigin")
    ELSE Ok([s EXCEPT !.Whitelist[account] = TRUE],
            <<[type |-> "Whitelisted", account |-> account]>>)

\* A removal from the whitelist that unfreezes the account too.
remove_from_whitelist_unfreezes(s, origin, account) ==
    IF ~AdminOrigin(origin, s) THEN Err(s, "BadOrigin")
    ELSE Ok([s EXCEPT !.Whitelist[account] = FALSE, !.Frozen[account] = FALSE],
            <<[type |-> "RemovedFromWhitelist", account |-> account]>>)

\* A removal from the whitelist that takes the account's balance.
remove_from_whitelist_confiscates(s, origin, account) ==
    IF ~AdminOrigin(origin, s) THEN Err(s, "BadOrigin")
    ELSE Ok([s EXCEPT !.Whitelist[account] = FALSE, !.Balances[account] = 0],
            <<[type |-> "RemovedFromWhitelist", account |-> account]>>)

remove_from_whitelist(s, origin, account) ==
    IF ~AdminOrigin(origin, s) THEN Err(s, "BadOrigin")
    ELSE Ok([s EXCEPT !.Whitelist[account] = FALSE],
            <<[type |-> "RemovedFromWhitelist", account |-> account]>>)

\* A rotation that leaves the whitelist as it is.
set_admin_no_whitelist(s, origin, new_admin) ==
    IF ~AdminOrigin(origin, s) THEN Err(s, "BadOrigin")
    ELSE LET old_admin == s.Admin
         IN Ok([s EXCEPT !.Admin = new_admin],
               <<[type |-> "AdminChanged", old_admin |-> old_admin,
                  new_admin |-> new_admin],
                 [type |-> "Whitelisted", account |-> new_admin]>>)

\* A rotation that reads the Admin cell for the event after writing it.
set_admin_old_after_write(s, origin, new_admin) ==
    IF ~AdminOrigin(origin, s) THEN Err(s, "BadOrigin")
    ELSE LET written == [s EXCEPT !.Admin = new_admin,
                                  !.Whitelist[new_admin] = TRUE]
             old_admin == written.Admin
         IN Ok(written,
               <<[type |-> "AdminChanged", old_admin |-> old_admin,
                  new_admin |-> new_admin],
                 [type |-> "Whitelisted", account |-> new_admin]>>)

\* A rotation that takes the outgoing admin off the whitelist.
set_admin_unlists_outgoing(s, origin, new_admin) ==
    IF ~AdminOrigin(origin, s) THEN Err(s, "BadOrigin")
    ELSE LET old_admin == s.Admin
             W == IF old_admin = None THEN s.Whitelist
                  ELSE [s.Whitelist EXCEPT ![old_admin] = FALSE]
         IN Ok([s EXCEPT !.Admin = new_admin,
                         !.Whitelist = [W EXCEPT ![new_admin] = TRUE]],
               <<[type |-> "AdminChanged", old_admin |-> old_admin,
                  new_admin |-> new_admin],
                 [type |-> "Whitelisted", account |-> new_admin]>>)

\* The Admin cell and set_admin: the tests and the runtime use them.
\* A set_admin that clears the cell when it is given the stored admin.
set_admin_renounces(s, origin, new_admin) ==
    IF ~AdminOrigin(origin, s) THEN Err(s, "BadOrigin")
    ELSE LET old_admin == s.Admin
         IN Ok([s EXCEPT !.Admin = IF new_admin = old_admin THEN None
                                   ELSE new_admin,
                         !.Whitelist[new_admin] = TRUE],
               <<[type |-> "AdminChanged", old_admin |-> old_admin,
                  new_admin |-> new_admin],
                 [type |-> "Whitelisted", account |-> new_admin]>>)

set_admin(s, origin, new_admin) ==
    IF ~AdminOrigin(origin, s) THEN Err(s, "BadOrigin")
    ELSE LET old_admin == s.Admin
         IN Ok([s EXCEPT !.Admin = new_admin, !.Whitelist[new_admin] = TRUE],
               <<[type |-> "AdminChanged", old_admin |-> old_admin,
                  new_admin |-> new_admin],
                 [type |-> "Whitelisted", account |-> new_admin]>>)

(***************************************************************************)
(* Genesis.                                                                *)
(***************************************************************************)
\* BoundedVec<u8, ConstU32<64>> and BoundedVec<u8, ConstU32<16>>
TokenNameBound == 64

TokenSymbolBound == 16

Bytes(n) == [i \in 1..n |-> 0]

SeqsUpTo(S, n) == UNION {[1..k -> S] : k \in 0..n}

GenesisConfig ==
    [admin : AccountId \cup {None},
     token_name : {Bytes(TokenNameBound), Bytes(TokenNameBound + 1)},
     token_symbol : {Bytes(TokenSymbolBound), Bytes(TokenSymbolBound + 1)},
     decimals : {6},
     whitelisted_accounts : SeqsUpTo(AccountId, MaxWhitelisted),
     initial_balances : SeqsUpTo(AccountId \X u128, MaxInitialBalances)]

DefaultStorage ==
    [TotalSupply |-> 0,
     Balances |-> [a \in AccountId |-> 0],
     Frozen |-> [a \in AccountId |-> FALSE],
     Whitelist |-> [a \in AccountId |-> FALSE],
     Admin |-> None]

DefaultMetadata == [TokenName |-> <<>>, TokenSymbol |-> <<>>, Decimals |-> 0]

\* Whitelist::insert(account, true) for each account of the list, in order.
RECURSIVE InsertAll(_, _)
InsertAll(W, accounts) ==
    IF accounts = <<>> THEN W
    ELSE InsertAll([W EXCEPT ![Head(accounts)] = TRUE], Tail(accounts))

\* A loop over initial_balances that keeps the first amount listed for an
\* account.
MintInitial_first_pair_wins(st, pairs) ==
    <<[a \in AccountId |->
         IF \E i \in DOMAIN pairs : pairs[i][1] = a
         THEN pairs[CHOOSE i \in DOMAIN pairs :
                      /\ pairs[i][1] = a
                      /\ \A j \in DOMAIN pairs : pairs[j][1] = a => i <= j][2]
         ELSE st[1][a]],
      saturating_add(st[2],
                     SumOver([i \in DOMAIN pairs |-> pairs[i][2]], DOMAIN pairs))>>

\* The loop over initial_balances: st is <<Balances, total>>.
RECURSIVE MintInitial(_, _)
MintInitial(st, pairs) ==
    IF pairs = <<>> THEN st
    ELSE LET account == Head(pairs)[1]
             amount == Head(pairs)[2]
         IN MintInitial(<<[st[1] EXCEPT ![account] = amount],
                          saturating_add(st[2], amount)>>,
                        Tail(pairs))

\* A genesis that whitelists the holders of the initial balances.
build_whitelists_holders(cfg) ==
    IF Len(cfg.token_name) > TokenNameBound THEN
        [panic |-> TRUE, storage |-> DefaultStorage, metadata |-> DefaultMetadata]
    ELSE IF Len(cfg.token_symbol) > TokenSymbolBound THEN
        [panic |-> TRUE, storage |-> DefaultStorage, metadata |-> DefaultMetadata]
    ELSE LET w1 == IF cfg.admin # None
                   THEN [DefaultStorage.Whitelist EXCEPT ![cfg.admin] = TRUE]
                   ELSE DefaultStorage.Whitelist
             w2 == InsertAll(w1, cfg.whitelisted_accounts)
             w3 == [a \in AccountId |->
                      \/ w2[a]
                      \/ \E i \in DOMAIN cfg.initial_balances :
                            cfg.initial_balances[i][1] = a]
             m == MintInitial(<<DefaultStorage.Balances, 0>>, cfg.initial_balances)
         IN [panic |-> FALSE,
             storage |-> [TotalSupply |-> m[2], Balances |-> m[1],
                          Frozen |-> DefaultStorage.Frozen, Whitelist |-> w3,
                          Admin |-> DefaultStorage.Admin],
             metadata |-> [TokenName |-> cfg.token_name,
                           TokenSymbol |-> cfg.token_symbol,
                           Decimals |-> cfg.decimals]]

\* A genesis that refuses a name of 64 bytes and a symbol of 16 bytes.
build_bound_exclusive(cfg) ==
    IF Len(cfg.token_name) >= TokenNameBound THEN
        [panic |-> TRUE, storage |-> DefaultStorage, metadata |-> DefaultMetadata]
    ELSE IF Len(cfg.token_symbol) >= TokenSymbolBound THEN
        [panic |-> TRUE, storage |-> DefaultStorage, metadata |-> DefaultMetadata]
    ELSE LET w1 == IF cfg.admin # None
                   THEN [DefaultStorage.Whitelist EXCEPT ![cfg.admin] = TRUE]
                   ELSE DefaultStorage.Whitelist
             w2 == InsertAll(w1, cfg.whitelisted_accounts)
             m == MintInitial(<<DefaultStorage.Balances, 0>>, cfg.initial_balances)
         IN [panic |-> FALSE,
             storage |-> [TotalSupply |-> m[2], Balances |-> m[1],
                          Frozen |-> DefaultStorage.Frozen, Whitelist |-> w2,
                          Admin |-> DefaultStorage.Admin],
             metadata |-> [TokenName |-> cfg.token_name,
                           TokenSymbol |-> cfg.token_symbol,
                           Decimals |-> cfg.decimals]]

\* build whitelists the admin of the configuration and writes no other cell
\* for it: the Admin cell keeps its default.
build(cfg) ==
    IF Len(cfg.token_name) > TokenNameBound THEN
        [panic |-> TRUE, storage |-> DefaultStorage, metadata |-> DefaultMetadata]
    ELSE IF Len(cfg.token_symbol) > TokenSymbolBound THEN
        [panic |-> TRUE, storage |-> DefaultStorage, metadata |-> DefaultMetadata]
    ELSE LET w1 == IF cfg.admin # None
                   THEN [DefaultStorage.Whitelist EXCEPT ![cfg.admin] = TRUE]
                   ELSE DefaultStorage.Whitelist
             w2 == InsertAll(w1, cfg.whitelisted_accounts)
             m == MintInitial(<<DefaultStorage.Balances, 0>>, cfg.initial_balances)
         IN [panic |-> FALSE,
             storage |-> [TotalSupply |-> m[2], Balances |-> m[1],
                          Frozen |-> DefaultStorage.Frozen, Whitelist |-> w2,
                          Admin |-> DefaultStorage.Admin],
             metadata |-> [TokenName |-> cfg.token_name,
                           TokenSymbol |-> cfg.token_symbol,
                           Decimals |-> cfg.decimals]]

(***************************************************************************)
(* The state machine.                                                      *)
(***************************************************************************)
\* The storage after genesis built from one of the configurations.
Genesis(configs) ==
    \E cfg \in configs :
        LET g == build(cfg)
        IN /\ TotalSupply = g.storage.TotalSupply
           /\ Balances = g.storage.Balances
           /\ Frozen = g.storage.Frozen
           /\ Whitelist = g.storage.Whitelist
           /\ Admin = g.storage.Admin
           /\ TokenName = g.metadata.TokenName
           /\ TokenSymbol = g.metadata.TokenSymbol
           /\ Decimals = g.metadata.Decimals
           /\ call = [op |-> "build", config |-> cfg]
           /\ result = IF g.panic THEN "Panic" ELSE "Ok"
           /\ events = <<>>

\* A history variable that is not followed.
Untracked == "untracked"

\* The history of mints to accounts that are not whitelisted when it holds
\* no mint: why is None, or Untracked when the history is not followed.
NoMint(why) == [account |-> why, listed |-> FALSE]

Init ==
    /\ Genesis(GenesisConfig)
    /\ rotated_out = Untracked
    /\ frozen_receiver = Untracked
    /\ unlisted_mint = NoMint(Untracked)
    /\ on_chain_storage_version = STORAGE_VERSION

\* Genesis with at most one initial balance, and admin rotations followed
\* from the start.
InitRotation ==
    /\ Genesis({cfg \in GenesisConfig : Len(cfg.initial_balances) <= 1})
    /\ rotated_out = None
    /\ frozen_receiver = Untracked
    /\ unlisted_mint = NoMint(Untracked)
    /\ on_chain_storage_version = STORAGE_VERSION

\* Genesis with at most one initial balance, and frozen receivers followed
\* from the start.
InitFrozenReceiver ==
    /\ Genesis({cfg \in GenesisConfig : Len(cfg.initial_balances) <= 1})
    /\ rotated_out = Untracked
    /\ frozen_receiver = None
    /\ unlisted_mint = NoMint(Untracked)
    /\ on_chain_storage_version = STORAGE_VERSION

\* Genesis with at most one initial balance, and mints to accounts that are
\* not whitelisted followed from the start.
InitUnlistedMint ==
    /\ Genesis({cfg \in GenesisConfig : Len(cfg.initial_balances) <= 1})
    /\ rotated_out = Untracked
    /\ frozen_receiver = Untracked
    /\ unlisted_mint = NoMint(None)
    /\ on_chain_storage_version = STORAGE_VERSION

\* The outgoing admin of the last rotation: a change of the Admin cell from
\* one account to another one.
Track(r, old_admin, new_admin) ==
    IF r = Untracked THEN Untracked
    ELSE IF old_admin # None /\ new_admin # old_admin THEN old_admin
    ELSE r

\* The last account credited by a transfer while frozen, until it is
\* unfrozen: f is the value so far, out the outcome of the call.
TrackReceiver(f, out) ==
    IF f = Untracked THEN Untracked
    ELSE IF /\ out.events # <<>>
            /\ out.events[1].type = "Transferred"
            /\ out.events[1].from # out.events[1].to
            /\ out.storage.Frozen[out.events[1].to]
         THEN out.events[1].to
    ELSE IF f # None /\ ~out.storage.Frozen[f] THEN None
    ELSE f

\* The last mint of one unit to an account that was not whitelisted: g is
\* the value so far, out the outcome of the call.  add_to_whitelist of the
\* account marks it listed; a transfer sent by the account ends the history.
TrackMint(g, out) ==
    IF g.account = Untracked THEN g
    ELSE IF out.events = <<>> THEN g
    ELSE LET ev == out.events[1]
         IN IF ev.type = "Minted"
            THEN IF ev.amount = 1 /\ ~out.storage.Whitelist[ev.to]
                 THEN [account |-> ev.to, listed |-> FALSE]
                 ELSE g
            ELSE IF g.account = None THEN g
            ELSE IF ev.type = "Whitelisted" /\ ev.account = g.account
                 THEN [g EXCEPT !.listed = TRUE]
            ELSE IF ev.type = "Transferred" /\ ev.from = g.account
                 THEN NoMint(None)
            ELSE g

\* Genesis with at most one initial balance, on a chain whose on-chain
\* storage version was put by another runtime (0 when it was never put).
InitMigration ==
    /\ Genesis({cfg \in GenesisConfig : Len(cfg.initial_balances) <= 1})
    /\ rotated_out = Untracked
    /\ frozen_receiver = Untracked
    /\ unlisted_mint = NoMint(Untracked)
    /\ on_chain_storage_version \in 0..MaxStorageVersion

\* No invocation is being delivered.
Idle == [op |-> "idle"]

\* The chain runs only when genesis did not panic.
Started == ~(call.op = "build" /\ result = "Panic")

\* The dispatcher is ready to deliver an invocation to the ledger.
Ready == call = Idle

\* A dispatch that resets the decimals.
Apply_resets_decimals(out) ==
    /\ TotalSupply' = out.storage.TotalSupply
    /\ Balances' = out.storage.Balances
    /\ Frozen' = out.storage.Frozen
    /\ Whitelist' = out.storage.Whitelist
    /\ Admin' = out.storage.Admin
    /\ result' = out.result
    /\ events' = out.events
    /\ rotated_out' = Track(rotated_out, Admin, out.storage.Admin)
    /\ frozen_receiver' = TrackReceiver(frozen_receiver, out)
    /\ unlisted_mint' = TrackMint(unlisted_mint, out)
    /\ TokenName' = TokenName
    /\ TokenSymbol' = TokenSymbol
    /\ Decimals' = 0
    /\ UNCHANGED on_chain_storage_version

Apply(out) ==
    /\ TotalSupply' = out.storage.TotalSupply
    /\ Balances' = out.storage.Balances
    /\ Frozen' = out.storage.Frozen
    /\ Whitelist' = out.storage.Whitelist
    /\ Admin' = out.storage.Admin
    /\ result' = out.result
    /\ events' = out.events
    /\ rotated_out' = Track(rotated_out, Admin, out.storage.Admin)
    /\ frozen_receiver' = TrackReceiver(frozen_receiver, out)
    /\ unlisted_mint' = TrackMint(unlisted_mint, out)
    /\ UNCHANGED <<metadata, on_chain_storage_version>>

Mint ==
    \E origin \in RuntimeOrigin, to \in AccountId, amount \in u128 :
        /\ Ready
        /\ call' = [op |-> "mint", origin |-> origin, account |-> to,
                    amount |-> amount]
        /\ Apply(mint(Storage, origin, to, amount))

Transfer ==
    \E origin \in RuntimeOrigin, to \in AccountId, amount \in u128 :
        /\ Ready
        /\ call' = [op |-> "transfer", origin |-> origin, account |-> to,
                    amount |-> amount]
        /\ Apply(transfer(Storage, origin, to, amount))

Freeze ==
    \E origin \in RuntimeOrigin, account \in AccountId :
        /\ Ready
        /\ call' = [op |-> "freeze", origin |-> origin, account |-> account,
                    amount |-> 0]
        /\ Apply(freeze(Storage, origin, account))

Unfreeze ==
    \E origin \in RuntimeOrigin, account \in AccountId :
        /\ Ready
        /\ call' = [op |-> "unfreeze", origin |-> origin, account |-> account,
                    amount |-> 0]
        /\ Apply(unfreeze(Storage, origin, account))

AddToWhitelist ==
    \E origin \in RuntimeOrigin, account \in AccountId :
        /\ Ready
        /\ call' = [op |-> "add_to_whitelist", origin |-> origin,
                    account |-> account, amount |-> 0]
        /\ Apply(add_to_whitelist(Storage, origin, account))

RemoveFromWhitelist ==
    \E origin \in RuntimeOrigin, account \in AccountId :
        /\ Ready
        /\ call' = [op |-> "remove_from_whitelist", origin |-> origin,
                    account |-> account, amount |-> 0]
        /\ Apply(remove_from_whitelist(Storage, origin, account))

SetAdmin ==
    \E origin \in RuntimeOrigin, new_admin \in AccountId :
        /\ Ready
        /\ call' = [op |-> "set_admin", origin |-> origin,
                    account |-> new_admin, amount |-> 0]
        /\ Apply(set_admin(Storage, origin, new_admin))

\* The dispatcher has the result of the invocation and takes the next one.
NextExtrinsic ==
    /\ call.op # "idle"
    /\ Started
    /\ call' = Idle
    /\ result' = "Idle"
    /\ events' = <<>>
    /\ UNCHANGED <<ledger, metadata, rotated_out, frozen_receiver,
                   unlisted_mint, on_chain_storage_version>>

\* A runtime upgrade runs the v1 migration before the extrinsics of a block.
OnRuntimeUpgrade ==
    /\ Ready
    /\ call' = [op |-> "on_runtime_upgrade"]
    /\ on_chain_storage_version' = MigrateToV1(on_chain_storage_version).version
    /\ result' = MigrateToV1(on_chain_storage_version).weight
    /\ events' = <<>>
    /\ UNCHANGED <<ledger, metadata, rotated_out, frozen_receiver,
                   unlisted_mint>>

Next ==
    \/ NextExtrinsic
    \/ OnRuntimeUpgrade
    \/ Mint
    \/ Transfer
    \/ Freeze
    \/ Unfreeze
    \/ AddToWhitelist
    \/ RemoveFromWhitelist
    \/ SetAdmin

Spec == Init /\ [][Next]_vars

SpecRotation == InitRotation /\ [][Next]_vars

SpecFrozenReceiver == InitFrozenReceiver /\ [][Next]_vars

SpecUnlistedMint == InitUnlistedMint /\ [][Next]_vars

SpecMigration == InitMigration /\ [][Next]_vars

(***************************************************************************)
(* Vocabulary of the properties.                                           *)
(***************************************************************************)
PrivilegedOps ==
    {"mint", "freeze", "unfreeze", "add_to_whitelist", "remove_from_whitelist",
     "set_admin"}

\* The step delivers a privileged call / a transfer (call' is the call, the
\* unprimed variables are the state at the time of the call).
PrivilegedCall == call'.op \in PrivilegedOps

TransferCall == call'.op = "transfer"

\* The four preconditions of transfer, in storage (W, F, B).
Eligible(W, F, B, sender, to, amount) ==
    /\ W[sender]
    /\ W[to]
    /\ ~F[sender]
    /\ B[sender] >= amount

(***************************************************************************)
(* C1: in every state reachable from genesis by any sequence of calls,     *)
(* TotalSupply equals the sum of Balances[a] over all accounts a.          *)
(***************************************************************************)
C1_SupplyIsSumOfBalances ==
    Started => TotalSupply = SumBalances(Balances)

(***************************************************************************)
(* C2: genesis bootstrap establishes TotalSupply = sum of Balances for     *)
(* every accepted genesis configuration, repeated accounts included,       *)
(* before any operation runs.                                              *)
(***************************************************************************)
C2_GenesisEstablishesSupply ==
    (call.op = "build" /\ result = "Ok") =>
        TotalSupply = SumBalances(Balances)

(***************************************************************************)
(* C3: a privileged call signed by an account that is neither the stored   *)
(* Admin nor the fallback account fails with BadOrigin, leaves             *)
(* TotalSupply, Balances, Frozen, Whitelist and Admin unchanged and emits  *)
(* no event.                                                               *)
(***************************************************************************)
C3_UnauthorizedRejected ==
    [][(/\ PrivilegedCall
        /\ call'.origin.kind = "Signed"
        /\ call'.origin.who # Admin
        /\ call'.origin.who # CladTokenAdmin)
       => (/\ result' = "BadOrigin"
           /\ ledger' = ledger
           /\ events' = <<>>)]_vars

C3_Witness ==
    /\ call.op \in PrivilegedOps
    /\ call.origin.kind = "Signed"
    /\ call.origin.who # Admin
    /\ call.origin.who # CladTokenAdmin
    /\ Admin # None
    /\ result = "BadOrigin"

(***************************************************************************)
(* C4: in any state where Admin holds an account other than the fallback   *)
(* account, a privileged call signed by the fallback account fails with    *)
(* BadOrigin.                                                              *)
(***************************************************************************)
C4_FallbackOnlyWhileAdminAbsent ==
    [][(/\ PrivilegedCall
        /\ call'.origin = Signed(CladTokenAdmin)
        /\ Admin # None
        /\ Admin # CladTokenAdmin)
       => result' = "BadOrigin"]_vars

(***************************************************************************)
(* C5: admin rotation revokes the outgoing admin.  After set_admin(W)      *)
(* succeeds in a state where Admin = Z (Z # W, Z not the fallback          *)
(* account), every later privileged call signed by Z fails with BadOrigin  *)
(* for as long as Admin is not set back to Z, while privileged calls       *)
(* signed by W succeed.  (rotated_out = Z from that set_admin until the    *)
(* next rotation, and Admin = W throughout.)                               *)
(***************************************************************************)
C5_RotationRevokesAndInstalls ==
    [][(/\ PrivilegedCall
        /\ call'.origin.kind = "Signed"
        /\ rotated_out \notin {None, CladTokenAdmin})
       => /\ (call'.origin.who = rotated_out) => result' = "BadOrigin"
          /\ (call'.origin.who = Admin) => result' = "Ok"]_vars

(***************************************************************************)
(* C5 as amended: while the outgoing admin Z of a rotation is not set back *)
(* (rotated_out = Z), Admin holds another account; Admin changes only in   *)
(* a successful set_admin, to the account given; while Admin holds an      *)
(* account, every privileged call signed by an account that is neither     *)
(* Admin nor the fallback account -- Z in particular -- fails with         *)
(* BadOrigin, and every privileged call signed by the account Admin holds  *)
(* passes authorization: it succeeds, except a mint that overflows.        *)
(***************************************************************************)
C5_RotationRevokesOutgoingAdmin ==
    [][/\ (rotated_out # None) => (Admin # None /\ Admin # rotated_out)
       /\ (Admin' # Admin)
          => (call'.op = "set_admin" /\ result' = "Ok" /\ Admin' = call'.account)
       /\ (/\ call'.op = "set_admin"
           /\ result' = "Ok"
           /\ Admin \notin {None, call'.account})
          => (rotated_out' = Admin /\ Admin' = call'.account)
       /\ (PrivilegedCall /\ call'.origin.kind = "Signed" /\ Admin # None)
          => /\ (call'.origin.who # Admin /\ call'.origin.who # CladTokenAdmin)
                => result' = "BadOrigin"
             /\ (call'.origin.who = Admin)
                => \/ result' = "Ok"
                   \/ (call'.op = "mint" /\ result' = "Overflow")]_vars

\* After a rotation out of Z, a privileged call signed by Z has been
\* rejected while Admin holds the incoming account.
C5_Witness ==
    /\ call.op \in PrivilegedOps
    /\ call.origin.kind = "Signed"
    /\ rotated_out \notin {None, CladTokenAdmin}
    /\ call.origin.who = rotated_out
    /\ Admin \notin {None, rotated_out}
    /\ result = "BadOrigin"

(***************************************************************************)
(* C6: whenever Admin = Some(a), a privileged call signed by a passes      *)
(* authorization, for each privileged operation, without root.             *)
(***************************************************************************)
C6_StorageAdminAuthorized ==
    [][(/\ PrivilegedCall
        /\ Admin # None
        /\ call'.origin = Signed(Admin))
       => result' # "BadOrigin"]_vars

C6_Witness ==
    /\ call.op = "mint"
    /\ call.origin.kind = "Signed"
    /\ call.origin.who = Admin
    /\ Admin # CladTokenAdmin
    /\ call.amount > 0
    /\ result = "Ok"

(***************************************************************************)
(* C7: a privileged call with the root origin passes authorization in      *)
(* every reachable state, whether Admin is absent or set.                  *)
(***************************************************************************)
C7_RootAlwaysAuthorized ==
    [][(PrivilegedCall /\ call'.origin = Root) => result' # "BadOrigin"]_vars

C7_Witness ==
    /\ call.op \in PrivilegedOps \ {"set_admin"}
    /\ call.origin = Root
    /\ Admin \notin {None, CladTokenAdmin}
    /\ result = "Ok"

(***************************************************************************)
(* C8: transfer succeeds only if sender and receiver are whitelisted, the  *)
(* sender is not frozen and Balances[sender] >= amount at the time of the  *)
(* call; and whenever these hold and Balances[to] + amount fits in the     *)
(* u128 range, it succeeds.                                                *)
(***************************************************************************)
C8_TransferPreconditions ==
    [][TransferCall =>
        /\ (result' = "Ok") =>
              /\ call'.origin.kind = "Signed"
              /\ Eligible(Whitelist, Frozen, Balances, call'.origin.who,
                          call'.account, call'.amount)
        /\ (/\ call'.origin.kind = "Signed"
            /\ Eligible(Whitelist, Frozen, Balances, call'.origin.who,
                        call'.account, call'.amount)
            /\ Balances[call'.account] + call'.amount <= U128_MAX)
           => result' = "Ok"]_vars

C8_Witness ==
    /\ call.op = "transfer"
    /\ call.origin.kind = "Signed"
    /\ call.origin.who # call.account
    /\ call.amount > 0
    /\ result = "Ok"

(***************************************************************************)
(* C9: a successful transfer of amount from sender to a different account  *)
(* to decreases Balances[sender] by amount, increases Balances[to] by      *)
(* amount and leaves every other balance, TotalSupply, Frozen, Whitelist   *)
(* and Admin unchanged.                                                    *)
(***************************************************************************)
C9_TransferEffect ==
    [][(/\ TransferCall
        /\ result' = "Ok"
        /\ call'.origin.who # call'.account)
       => LET sender == call'.origin.who
              to == call'.account
              amount == call'.amount
          IN /\ Balances'[sender] = Balances[sender] - amount
             /\ Balances'[to] = Balances[to] + amount
             /\ \A a \in AccountId \ {sender, to} : Balances'[a] = Balances[a]
             /\ TotalSupply' = TotalSupply
             /\ Frozen' = Frozen
             /\ Whitelist' = Whitelist
             /\ Admin' = Admin]_vars

C9_Witness ==
    /\ call.op = "transfer"
    /\ result = "Ok"
    /\ call.origin.who # call.account
    /\ call.amount > 0
    /\ Balances[call.account] >= call.amount
    /\ \E a \in AccountId \ {call.origin.who, call.account} : Balances[a] > 0

(***************************************************************************)
(* C10: no transfer call, successful or failed, changes TotalSupply.       *)
(***************************************************************************)
C10_TransferKeepsSupply ==
    [][TransferCall => TotalSupply' = TotalSupply]_vars

C10_Witness ==
    /\ call.op = "transfer"
    /\ result = "Ok"
    /\ call.origin.who # call.account
    /\ call.amount > 0
    /\ TotalSupply > 0

(***************************************************************************)
(* C11: an authorized mint(to, amount) for which neither TotalSupply +     *)
(* amount nor Balances[to] + amount exceeds u128::MAX succeeds for any     *)
(* account to, whitelisted or not, frozen or not, increases TotalSupply    *)
(* and Balances[to] by exactly amount and leaves every other balance,      *)
(* Frozen, Whitelist and Admin unchanged.                                  *)
(***************************************************************************)
\* The caller of the call being delivered is root, the stored admin, or the
\* fallback account while no admin is stored; or it passed authorization.
Authorized ==
    \/ call'.origin = Root
    \/ (Admin # None /\ call'.origin = Signed(Admin))
    \/ (Admin = None /\ call'.origin = Signed(CladTokenAdmin))
    \/ result' # "BadOrigin"

C11_MintEffect ==
    [][(/\ call'.op = "mint"
        /\ Authorized
        /\ TotalSupply + call'.amount <= U128_MAX
        /\ Balances[call'.account] + call'.amount <= U128_MAX)
       => LET to == call'.account
              amount == call'.amount
          IN /\ result' = "Ok"
             /\ TotalSupply' = TotalSupply + amount
             /\ Balances'[to] = Balances[to] + amount
             /\ \A a \in AccountId \ {to} : Balances'[a] = Balances[a]
             /\ Frozen' = Frozen
             /\ Whitelist' = Whitelist
             /\ Admin' = Admin]_vars

\* A positive amount has been minted to a frozen account that is not
\* whitelisted.
C11_Witness ==
    /\ call.op = "mint"
    /\ result = "Ok"
    /\ call.amount > 0
    /\ ~Whitelist[call.account]
    /\ Frozen[call.account]
    /\ Balances[call.account] > call.amount

(***************************************************************************)
(* C12: an authorized mint(to, amount) for which TotalSupply + amount or   *)
(* Balances[to] + amount exceeds u128::MAX fails with Overflow and leaves  *)
(* TotalSupply and Balances[to] unchanged.                                 *)
(***************************************************************************)
C12_MintOverflow ==
    [][(/\ call'.op = "mint"
        /\ Authorized
        /\ \/ TotalSupply + call'.amount > U128_MAX
           \/ Balances[call'.account] + call'.amount > U128_MAX)
       => /\ result' = "Overflow"
          /\ TotalSupply' = TotalSupply
          /\ Balances' = Balances]_vars

\* A mint was refused although the balance of the account had room for it.
C12_Witness ==
    /\ call.op = "mint"
    /\ result = "Overflow"
    /\ TotalSupply + call.amount > U128_MAX
    /\ Balances[call.account] + call.amount <= U128_MAX

(***************************************************************************)
(* C13: a transfer whose sender is not in Whitelist, or whose receiver is  *)
(* not in Whitelist, fails with NotWhitelisted and leaves all balances     *)
(* unchanged, whatever the amount and the balances.                        *)
(***************************************************************************)
C13_TransferNotWhitelisted ==
    [][(/\ TransferCall
        /\ call'.origin.kind = "Signed"
        /\ (~Whitelist[call'.origin.who] \/ ~Whitelist[call'.account]))
       => (result' = "NotWhitelisted" /\ Balances' = Balances)]_vars

\* Only the receiver was missing from the whitelist; the sender was frozen
\* and short of the amount as well.
C13_Witness ==
    /\ call.op = "transfer"
    /\ result = "NotWhitelisted"
    /\ Whitelist[call.origin.who]
    /\ ~Whitelist[call.account]
    /\ Frozen[call.origin.who]
    /\ Balances[call.origin.who] < call.amount

(***************************************************************************)
(* C14: a transfer whose sender and receiver are both whitelisted but      *)
(* whose sender is in Frozen fails with AccountFrozen and leaves all       *)
(* balances unchanged; this includes a self-transfer by a frozen account.  *)
(***************************************************************************)
C14_TransferFrozenSender ==
    [][(/\ TransferCall
        /\ call'.origin.kind = "Signed"
        /\ Whitelist[call'.origin.who]
        /\ Whitelist[call'.account]
        /\ Frozen[call'.origin.who])
       => (result' = "AccountFrozen" /\ Balances' = Balances)]_vars

\* A frozen account was refused a self-transfer it had no balance for.
C14_Witness ==
    /\ call.op = "transfer"
    /\ result = "AccountFrozen"
    /\ call.origin.who = call.account
    /\ Balances[call.origin.who] < call.amount

(***************************************************************************)
(* C15: for an eligible sender (whitelisted, unfrozen) and a whitelisted   *)
(* receiver, transferring exactly Balances[sender] succeeds and leaves the *)
(* sender's balance at 0, and transferring Balances[sender] + 1 fails with *)
(* InsufficientBalance with all balances unchanged.                        *)
(***************************************************************************)
C15_TransferBoundary ==
    [][(/\ TransferCall
        /\ call'.origin.kind = "Signed"
        /\ Whitelist[call'.origin.who]
        /\ ~Frozen[call'.origin.who]
        /\ Whitelist[call'.account])
       => LET sender == call'.origin.who
          IN /\ (call'.amount = Balances[sender])
                => (result' = "Ok" /\ Balances'[sender] = 0)
             /\ (call'.amount = Balances[sender] + 1)
                => (result' = "InsufficientBalance" /\ Balances' = Balances)]_vars

(***************************************************************************)
(* C15 as amended: the receiver is an account other than the sender, and   *)
(* the full-balance transfer succeeds when the receiver's balance plus the *)
(* amount fits in the u128 range; a self-transfer of the full balance      *)
(* succeeds and leaves the balance as it is.                               *)
(***************************************************************************)
C15_TransferBoundaryOtherReceiver ==
    [][(/\ TransferCall
        /\ call'.origin.kind = "Signed"
        /\ Whitelist[call'.origin.who]
        /\ ~Frozen[call'.origin.who]
        /\ Whitelist[call'.account])
       => LET sender == call'.origin.who
              to == call'.account
          IN /\ (/\ call'.amount = Balances[sender]
                 /\ to # sender
                 /\ Balances[to] + call'.amount <= U128_MAX)
                => (result' = "Ok" /\ Balances'[sender] = 0)
             /\ (call'.amount = Balances[sender] /\ to = sender)
                => (result' = "Ok" /\ Balances' = Balances)
             /\ (call'.amount = Balances[sender] + 1)
                => (result' = "InsufficientBalance" /\ Balances' = Balances)]_vars

\* A sender has transferred its whole, positive balance to another account.
C15_Witness ==
    /\ call.op = "transfer"
    /\ result = "Ok"
    /\ call.origin.who # call.account
    /\ call.amount > 0
    /\ Balances[call.origin.who] = 0

(***************************************************************************)
(* C16: freezing blocks only outgoing transfers.  A transfer from an       *)
(* eligible sender to a whitelisted receiver that is in Frozen succeeds    *)
(* and credits the receiver, while any transfer sent by that frozen        *)
(* receiver fails with AccountFrozen.                                      *)
(***************************************************************************)
C16_FrozenReceivesOnly ==
    [][(TransferCall /\ call'.origin.kind = "Signed")
       => LET sender == call'.origin.who
              to == call'.account
              amount == call'.amount
          IN /\ (/\ Eligible(Whitelist, Frozen, Balances, sender, to, amount)
                 /\ Frozen[to])
                => (result' = "Ok" /\ Balances'[to] = Balances[to] + amount)
             /\ (frozen_receiver # None /\ sender = frozen_receiver)
                => result' = "AccountFrozen"]_vars

(***************************************************************************)
(* C16 as amended: the transfer to the frozen receiver succeeds when the   *)
(* receiver's balance plus the amount fits in the u128 range, and every    *)
(* transfer sent by that receiver while it is frozen fails: with           *)
(* AccountFrozen when it and its destination are whitelisted, with         *)
(* NotWhitelisted otherwise.                                               *)
(***************************************************************************)
C16_FrozenReceivesCannotSend ==
    [][/\ (frozen_receiver # None) => Frozen[frozen_receiver]
       /\ (TransferCall /\ call'.origin.kind = "Signed")
          => LET sender == call'.origin.who
                 to == call'.account
                 amount == call'.amount
             IN /\ (/\ Eligible(Whitelist, Frozen, Balances, sender, to, amount)
                    /\ Frozen[to]
                    /\ Balances[to] + amount <= U128_MAX)
                   => /\ result' = "Ok"
                      /\ Balances'[to] = Balances[to] + amount
                      /\ frozen_receiver' = to
                /\ (frozen_receiver # None /\ sender = frozen_receiver)
                   => /\ Balances' = Balances
                      /\ result' = IF Whitelist[sender] /\ Whitelist[to]
                                   THEN "AccountFrozen"
                                   ELSE "NotWhitelisted"]_vars

\* The account that was credited while frozen has been refused a transfer
\* of an amount it holds, to a whitelisted account.
C16_Witness ==
    /\ call.op = "transfer"
    /\ frozen_receiver # None
    /\ call.origin.who = frozen_receiver
    /\ call.account # frozen_receiver
    /\ call.amount > 0
    /\ Balances[frozen_receiver] >= call.amount
    /\ result = "AccountFrozen"

(***************************************************************************)
(* C17: a transfer whose receiver is the sender is subject to the same     *)
(* preconditions as any other transfer.  When they hold it succeeds,       *)
(* changes no balance and no other state, and emits                        *)
(* Transferred{from: sender, to: sender, amount}; when the sender is       *)
(* whitelisted and not frozen and Balances[sender] < amount it fails with  *)
(* InsufficientBalance.                                                    *)
(***************************************************************************)
C17_SelfTransfer ==
    [][(/\ TransferCall
        /\ call'.origin.kind = "Signed"
        /\ call'.account = call'.origin.who)
       => LET sender == call'.origin.who
              amount == call'.amount
          IN /\ result' = transfer_checks(Storage, sender, sender, amount)
             /\ ledger' = ledger
             /\ Eligible(Whitelist, Frozen, Balances, sender, sender, amount)
                => /\ result' = "Ok"
                   /\ events' = <<[type |-> "Transferred", from |-> sender,
                                   to |-> sender, amount |-> amount]>>
             /\ (/\ Whitelist[sender]
                 /\ ~Frozen[sender]
                 /\ Balances[sender] < amount)
                => (result' = "InsufficientBalance" /\ events' = <<>>)]_vars

\* An account has transferred a positive amount to itself.
C17_Witness ==
    /\ call.op = "transfer"
    /\ call.origin.kind = "Signed"
    /\ call.account = call.origin.who
    /\ call.amount > 0
    /\ result = "Ok"

(***************************************************************************)
(* C18: after a successful set_admin(new_admin), Admin = Some(new_admin)   *)
(* and new_admin is on the whitelist, whatever its state before; the       *)
(* supply, every balance, the frozen set and the whitelist entry of every  *)
(* other account are unchanged.                                            *)
(***************************************************************************)
C18_SetAdminEffect ==
    [][(call'.op = "set_admin" /\ result' = "Ok")
       => /\ Admin' = call'.account
          /\ Whitelist'[call'.account]
          /\ TotalSupply' = TotalSupply
          /\ Balances' = Balances
          /\ Frozen' = Frozen
          /\ \A a \in AccountId \ {call'.account} :
                Whitelist'[a] = Whitelist[a]]_vars

\* A rotation has installed a frozen account, which is the only account on
\* the whitelist.
C18_Witness ==
    /\ call.op = "set_admin"
    /\ result = "Ok"
    /\ Admin = call.account
    /\ Frozen[call.account]
    /\ \A a \in AccountId : Whitelist[a] <=> a = call.account

(***************************************************************************)
(* C19: the AdminChanged event of a successful set_admin carries as        *)
(* old_admin the content of the Admin cell before the call (absent when    *)
(* the cell was absent) and as new_admin the argument, also when new_admin *)
(* is the current admin, whoever the caller is.                            *)
(***************************************************************************)
C19_AdminChangedEvent ==
    [][(call'.op = "set_admin" /\ result' = "Ok")
       => /\ events' # <<>>
          /\ events'[1] = [type |-> "AdminChanged", old_admin |-> Admin,
                           new_admin |-> call'.account]]_vars

\* Root has rotated the admin to the account that was the admin already.
C19_Witness ==
    /\ call.op = "set_admin"
    /\ result = "Ok"
    /\ call.origin = Root
    /\ events[1].type = "AdminChanged"
    /\ events[1].old_admin = call.account
    /\ events[1].new_admin = call.account

(***************************************************************************)
(* C20: set_admin never takes an account off the whitelist: every account *)
(* whitelisted before the call, the outgoing admin among them, is          *)
(* whitelisted after it, in each of any number of rotations.               *)
(***************************************************************************)
C20_SetAdminKeepsWhitelist ==
    [][(call'.op = "set_admin")
       => \A a \in AccountId : Whitelist[a] => Whitelist'[a]]_vars

\* A rotation has replaced an admin by another account, and the outgoing
\* admin is on the whitelist after it.
C20_Witness ==
    /\ call.op = "set_admin"
    /\ result = "Ok"
    /\ events[1].old_admin \notin {None, call.account}
    /\ Whitelist[events[1].old_admin]

\* The event that records the call c, made when the Admin cell held admin.
EventOf(c, admin) ==
    CASE c.op = "mint" ->
           [type |-> "Minted", to |-> c.account, amount |-> c.amount]
      [] c.op = "transfer" ->
           [type |-> "Transferred", from |-> c.origin.who, to |-> c.account,
            amount |-> c.amount]
      [] c.op = "freeze" -> [type |-> "Frozen", account |-> c.account]
      [] c.op = "unfreeze" -> [type |-> "Unfrozen", account |-> c.account]
      [] c.op = "add_to_whitelist" ->
           [type |-> "Whitelisted", account |-> c.account]
      [] c.op = "remove_from_whitelist" ->
           [type |-> "RemovedFromWhitelist", account |-> c.account]
      [] c.op = "set_admin" ->
           [type |-> "AdminChanged", old_admin |-> admin,
            new_admin |-> c.account]

Operations == PrivilegedOps \cup {"transfer"}

Errors ==
    {"BadOrigin", "NotWhitelisted", "AccountFrozen", "InsufficientBalance",
     "Overflow"}

(***************************************************************************)
(* C22: an operation that returns an error (authorization failure,         *)
(* NotWhitelisted, AccountFrozen, InsufficientBalance, Overflow) leaves    *)
(* TotalSupply, Balances, Frozen, Whitelist, Admin and the metadata as     *)
(* they were before the call and emits no event; every operation is        *)
(* either a success or one of these errors.                                *)
(***************************************************************************)
C22_FailureLeavesNoTrace ==
    [][(call'.op \in Operations)
       => /\ result' \in Errors \cup {"Ok"}
          /\ (result' \in Errors)
             => /\ ledger' = ledger
                /\ metadata' = metadata
                /\ events' = <<>>]_vars

\* A mint has failed with Overflow on the supply although the receiver's
\* balance had room for the amount.
C22_Witness ==
    /\ call.op = "mint"
    /\ result = "Overflow"
    /\ call.amount > 0
    /\ Balances[call.account] + call.amount <= U128_MAX
    /\ events = <<>>

\* The four calls that set or clear a membership.
Toggles == {"freeze", "unfreeze", "add_to_whitelist", "remove_from_whitelist"}

\* The outcome of the toggle c in the storage s.
Toggle(s, c) ==
    CASE c.op = "freeze" -> freeze(s, c.origin, c.account)
      [] c.op = "unfreeze" -> unfreeze(s, c.origin, c.account)
      [] c.op = "add_to_whitelist" -> add_to_whitelist(s, c.origin, c.account)
      [] c.op = "remove_from_whitelist" ->
           remove_from_whitelist(s, c.origin, c.account)

\* With the memberships F and W, the account of the toggle c is in the
\* state that c establishes.
InTargetState(F, W, c) ==
    CASE c.op = "freeze" -> F[c.account]
      [] c.op = "unfreeze" -> ~F[c.account]
      [] c.op = "add_to_whitelist" -> W[c.account]
      [] c.op = "remove_from_whitelist" -> ~W[c.account]

(***************************************************************************)
(* C23: freeze, unfreeze, add_to_whitelist and remove_from_whitelist are   *)
(* idempotent.  Made by an authorized caller each succeeds whatever the    *)
(* state of the account; on an account already in the target state it      *)
(* leaves the whole ledger unchanged and still emits its event; and the    *)
(* same call applied again to the resulting state succeeds with the same   *)
(* event and yields that state.                                            *)
(***************************************************************************)
C23_TogglesIdempotent ==
    [][(call'.op \in Toggles)
       => /\ Authorized => result' = "Ok"
          /\ (result' = "Ok" /\ InTargetState(Frozen, Whitelist, call'))
             => /\ ledger' = ledger
                /\ events' = <<EventOf(call', Admin)>>
          /\ (result' = "Ok")
             => Toggle(Storage', call') =
                   [result |-> "Ok", storage |-> Storage', events |-> events']]_vars

\* The account that was credited while frozen, and has been frozen since,
\* has been frozen again.
C23_Witness ==
    /\ call.op = "freeze"
    /\ result = "Ok"
    /\ frozen_receiver # None
    /\ call.account = frozen_receiver
    /\ events = <<[type |-> "Frozen", account |-> frozen_receiver]>>

(***************************************************************************)
(* C24: Frozen and Whitelist are independent.  freeze and unfreeze never   *)
(* change any account's Whitelist membership, add_to_whitelist and         *)
(* remove_from_whitelist never change any account's Frozen membership, and *)
(* each of them changes the membership of the account named in the call    *)
(* only; an account can be in each of the four combinations of             *)
(* whitelisted and frozen.                                                 *)
(***************************************************************************)
C24_FrozenWhitelistIndependent ==
    [][(call'.op \in Toggles)
       => /\ (call'.op \in {"freeze", "unfreeze"}) =>
                /\ Whitelist' = Whitelist
                /\ \A a \in AccountId \ {call'.account} : Frozen'[a] = Frozen[a]
          /\ (call'.op \in {"add_to_whitelist", "remove_from_whitelist"}) =>
                /\ Frozen' = Frozen
                /\ \A a \in AccountId \ {call'.account} :
                      Whitelist'[a] = Whitelist[a]
          /\ (result' = "Ok") => InTargetState(Frozen', Whitelist', call')]_vars

\* A removal from the whitelist has left a frozen account that is not
\* whitelisted, beside an account that is whitelisted and frozen and one
\* that is whitelisted and not frozen (an account neither whitelisted nor
\* frozen is what genesis leaves).
C24_Witness ==
    /\ call.op = "remove_from_whitelist"
    /\ result = "Ok"
    /\ Frozen[call.account]
    /\ \E a \in AccountId : Whitelist[a] /\ Frozen[a]
    /\ \E a \in AccountId : Whitelist[a] /\ ~Frozen[a]

(***************************************************************************)
(* C25: freeze, unfreeze, add_to_whitelist and remove_from_whitelist never *)
(* change a balance or TotalSupply: a balance changes in a mint or a       *)
(* transfer only, so an account removed from the whitelist keeps its       *)
(* balance until one of these moves it.                                    *)
(***************************************************************************)
C25_TogglesKeepBalances ==
    [][/\ (call'.op \in Toggles)
          => (Balances' = Balances /\ TotalSupply' = TotalSupply)
       /\ (Balances' # Balances \/ TotalSupply' # TotalSupply)
          => (call'.op \in {"mint", "transfer"} /\ result' = "Ok")]_vars

\* An account with a balance has been removed from the whitelist.
C25_Witness ==
    /\ call.op = "remove_from_whitelist"
    /\ result = "Ok"
    /\ ~Whitelist[call.account]
    /\ Balances[call.account] > 0
    /\ TotalSupply >= Balances[call.account]

(***************************************************************************)
(* C26: a mint of amount 0 by an authorized caller and a transfer of       *)
(* amount 0 from a whitelisted, unfrozen sender to a whitelisted receiver  *)
(* both succeed, leave TotalSupply and every balance unchanged, and emit   *)
(* their event with amount = 0.                                            *)
(***************************************************************************)
C26_ZeroAmount ==
    [][/\ (call'.op = "mint" /\ call'.amount = 0 /\ Authorized)
          => /\ result' = "Ok"
             /\ TotalSupply' = TotalSupply
             /\ Balances' = Balances
             /\ events' = <<[type |-> "Minted", to |-> call'.account,
                             amount |-> 0]>>
       /\ (/\ TransferCall
           /\ call'.amount = 0
           /\ call'.origin.kind = "Signed"
           /\ Whitelist[call'.origin.who]
           /\ ~Frozen[call'.origin.who]
           /\ Whitelist[call'.account])
          => /\ result' = "Ok"
             /\ TotalSupply' = TotalSupply
             /\ Balances' = Balances
             /\ events' = <<[type |-> "Transferred",
                             from |-> call'.origin.who,
                             to |-> call'.account, amount |-> 0]>>]_vars

\* An account without a balance has transferred 0 to another account that
\* holds the largest balance.
C26_Witness ==
    /\ call.op = "transfer"
    /\ call.amount = 0
    /\ result = "Ok"
    /\ call.account # call.origin.who
    /\ Balances[call.origin.who] = 0
    /\ Balances[call.account] = U128_MAX
    /\ events # <<>>
    /\ events[1].amount = 0

(***************************************************************************)
(* C27: mint has no whitelist precondition but transfer does.  After       *)
(* mint(C, n) to an account C that is not whitelisted, every transfer sent *)
(* by C fails with NotWhitelisted until add_to_whitelist(C) succeeds;      *)
(* after C and the receiver are both whitelisted, a transfer from C of at  *)
(* most n succeeds.  Stated for the mints of n = 1 that unlisted_mint      *)
(* follows.                                                                *)
(***************************************************************************)
C27_MintThenWhitelist ==
    [][(/\ TransferCall
        /\ call'.origin.kind = "Signed"
        /\ call'.origin.who = unlisted_mint.account)
       => /\ ~unlisted_mint.listed => result' = "NotWhitelisted"
          /\ (/\ Whitelist[call'.origin.who]
              /\ Whitelist[call'.account]
              /\ call'.amount <= 1)
             => result' = "Ok"]_vars

(***************************************************************************)
(* C27 as amended: an authorized mint to an account that is not            *)
(* whitelisted succeeds when the supply has room for the amount.  After    *)
(* mint(C, n) to such an account C, C holds at least n until it sends a    *)
(* transfer, every transfer sent by C fails with NotWhitelisted for as     *)
(* long as C is not on the whitelist, and only add_to_whitelist(C) and     *)
(* set_admin(C) put it there; once C and the receiver are both whitelisted *)
(* and C is not frozen, a transfer from C of at most n succeeds when the   *)
(* receiver's balance plus the amount fits in the u128 range.              *)
(***************************************************************************)
C27_MintThenListed ==
    [][/\ (/\ call'.op = "mint"
           /\ ~Whitelist[call'.account])
          => /\ (Authorized /\ TotalSupply + call'.amount <= U128_MAX)
                => result' = "Ok"
             /\ (result' = "Ok")
                => /\ Balances'[call'.account] >= call'.amount
                   /\ (call'.amount = 1)
                      => unlisted_mint' = [account |-> call'.account,
                                           listed |-> FALSE]
       /\ \A a \in AccountId :
            (Balances'[a] < Balances[a])
            => /\ TransferCall
               /\ result' = "Ok"
               /\ call'.origin.who = a
       /\ (unlisted_mint.account \in AccountId)
          => LET C == unlisted_mint.account
             IN /\ Balances[C] >= 1
                /\ (~Whitelist[C] /\ Whitelist'[C])
                   => /\ call'.op \in {"add_to_whitelist", "set_admin"}
                      /\ call'.account = C
                      /\ result' = "Ok"
                /\ (TransferCall /\ call'.origin = Signed(C))
                   => /\ ~Whitelist[C] => result' = "NotWhitelisted"
                      /\ (/\ Whitelist[C]
                          /\ Whitelist[call'.account]
                          /\ ~Frozen[C]
                          /\ call'.amount <= 1
                          /\ \/ call'.account = C
                             \/ Balances[call'.account] + call'.amount
                                   <= U128_MAX)
                         => result' = "Ok"]_vars

\* The account of a mint of one unit, not whitelisted since, has been
\* refused a transfer of that unit to a whitelisted account.
C27_Witness ==
    /\ call.op = "transfer"
    /\ call.origin.kind = "Signed"
    /\ call.origin.who = unlisted_mint.account
    /\ ~unlisted_mint.listed
    /\ ~Whitelist[call.origin.who]
    /\ Whitelist[call.account]
    /\ call.amount = 1
    /\ Balances[call.origin.who] >= 1
    /\ result = "NotWhitelisted"

(***************************************************************************)
(* C28: genesis refuses to start, and writes no state, when the token name *)
(* is longer than 64 bytes or the symbol is longer than 16 bytes; otherwise *)
(* it stores name, symbol and decimals exactly as given.                   *)
(***************************************************************************)
C28_GenesisMetadata ==
    /\ [](call.op = "build" =>
            IF \/ Len(call.config.token_name) > 64
               \/ Len(call.config.token_symbol) > 16
            THEN /\ result = "Panic"
                 /\ Storage = DefaultStorage
                 /\ <<TokenName, TokenSymbol, Decimals>> = <<<<>>, <<>>, 0>>
            ELSE /\ result = "Ok"
                 /\ TokenName = call.config.token_name
                 /\ TokenSymbol = call.config.token_symbol
                 /\ Decimals = call.config.decimals)
    /\ [][Started]_vars

\* Genesis has panicked on a symbol of 17 bytes after a name of 64 bytes.
C28_Witness ==
    /\ call.op = "build"
    /\ result = "Panic"
    /\ Len(call.config.token_name) = 64
    /\ Len(call.config.token_symbol) = 17
    /\ TokenName = <<>>

(***************************************************************************)
(* C29: after genesis built with admin = Some(a) the Admin cell reads      *)
(* Some(a) and a is whitelisted (so that the first set_admin records       *)
(* old_admin = Some(a)); after genesis built with admin = None the Admin   *)
(* cell is absent.                                                         *)
(***************************************************************************)
C29_GenesisSeedsAdmin ==
    (call.op = "build" /\ result = "Ok")
    => /\ Admin = call.config.admin
       /\ (call.config.admin # None) => Whitelist[call.config.admin]

(***************************************************************************)
(* C30: the token metadata (name, symbol, decimals) is immutable after     *)
(* genesis: no step of the seven operations, successful or failed, changes *)
(* it.                                                                     *)
(***************************************************************************)
C30_MetadataImmutable == [][metadata' = metadata]_vars

\* A mint has filled the supply and the metadata is the one of a genesis
\* with a name of 64 bytes, a symbol of 16 bytes and 6 decimals.
C30_Witness ==
    /\ call.op = "mint"
    /\ result = "Ok"
    /\ call.amount > 0
    /\ TotalSupply = U128_MAX
    /\ Len(TokenName) = TokenNameBound
    /\ Len(TokenSymbol) = TokenSymbolBound
    /\ Decimals = 6

(***************************************************************************)
(* C31: in every state reachable from genesis through the operations no    *)
(* account's balance exceeds TotalSupply, and therefore no transfer ever   *)
(* returns Overflow.                                                       *)
(***************************************************************************)
C31_TransferNeverOverflows ==
    /\ [](\A a \in AccountId : Balances[a] <= TotalSupply)
    /\ [][TransferCall => result' # "Overflow"]_vars

(***************************************************************************)
(* C32: transfer evaluates its checks in a fixed order and reports the     *)
(* first that fails: sender not whitelisted (NotWhitelisted), receiver not *)
(* whitelisted (NotWhitelisted), sender frozen (AccountFrozen),            *)
(* insufficient balance (InsufficientBalance), receiver overflow           *)
(* (Overflow).  The receiver's balance overflows when the receiver is not  *)
(* the sender and its balance plus the amount exceeds the u128 range.      *)
(***************************************************************************)
C32_TransferCheckOrder ==
    [][(TransferCall /\ call'.origin.kind = "Signed")
       => LET sender == call'.origin.who
              to == call'.account
              amount == call'.amount
          IN result' =
               IF ~Whitelist[sender] THEN "NotWhitelisted"
               ELSE IF ~Whitelist[to] THEN "NotWhitelisted"
               ELSE IF Frozen[sender] THEN "AccountFrozen"
               ELSE IF Balances[sender] < amount THEN "InsufficientBalance"
               ELSE IF to # sender /\ Balances[to] + amount > U128_MAX
                    THEN "Overflow"
               ELSE "Ok"]_vars

\* A frozen, whitelisted sender whose balance is below the amount has been
\* refused as frozen, the receiver being whitelisted with a full balance.
C32_Witness ==
    /\ call.op = "transfer"
    /\ call.origin.kind = "Signed"
    /\ Whitelist[call.origin.who]
    /\ Whitelist[call.account]
    /\ Frozen[call.origin.who]
    /\ Balances[call.origin.who] < call.amount
    /\ Balances[call.account] = U128_MAX
    /\ result = "AccountFrozen"

(***************************************************************************)
(* C33: TotalSupply never decreases along any sequence of operations, and  *)
(* it changes only in a successful mint, by exactly the minted amount.     *)
(***************************************************************************)
C33_SupplyOnlyGrowsByMint ==
    [][/\ TotalSupply' >= TotalSupply
       /\ (TotalSupply' # TotalSupply)
          => /\ call'.op = "mint"
             /\ result' = "Ok"
             /\ TotalSupply' = TotalSupply + call'.amount
       /\ (call'.op = "mint" /\ result' = "Ok")
          => TotalSupply' = TotalSupply + call'.amount]_vars

\* A mint has raised the supply from a positive value to the largest one.
C33_Witness ==
    /\ call.op = "mint"
    /\ result = "Ok"
    /\ call.amount > 0
    /\ call.amount < TotalSupply
    /\ TotalSupply = U128_MAX

(***************************************************************************)
(* C34: an account's balance decreases only through a successful transfer  *)
(* signed by that same account: no call made by any other account,         *)
(* privileged or not, ever lowers it.                                      *)
(***************************************************************************)
C34_OnlyOwnerLowersBalance ==
    [][\A a \in AccountId :
         (Balances'[a] < Balances[a])
         => /\ TransferCall
            /\ result' = "Ok"
            /\ call'.origin = Signed(a)
            /\ call'.account # a
            /\ Balances'[a] = Balances[a] - call'.amount]_vars

\* An account that is not the admin has sent one unit of its balance and
\* keeps the rest.
C34_Witness ==
    /\ call.op = "transfer"
    /\ result = "Ok"
    /\ call.origin.kind = "Signed"
    /\ call.origin.who # call.account
    /\ call.origin.who # Admin
    /\ call.amount = 1
    /\ Balances[call.origin.who] > 0

\* Genesis has just been built, without a panic.
GenesisBuilt == call.op = "build" /\ result = "Ok"

\* The positions of the account a in the list of initial balances.
Listed(pairs, a) == {i \in DOMAIN pairs : pairs[i][1] = a}

\* The lengths of the metadata of the configuration are within their bounds.
MetadataFits(cfg) ==
    Len(cfg.token_name) <= 64 /\ Len(cfg.token_symbol) <= 16

(***************************************************************************)
(* C35: at genesis, when initial_balances lists the same account more than *)
(* once, Balances[account] is the amount of the last pair listed for it    *)
(* (overwrite, not accumulation); an account listed once holds its amount  *)
(* and an account not listed holds 0.                                      *)
(***************************************************************************)
C35_GenesisLastPairWins ==
    GenesisBuilt
    => LET pairs == call.config.initial_balances
       IN \A a \in AccountId :
            Balances[a] =
              IF Listed(pairs, a) = {} THEN 0
              ELSE pairs[CHOOSE i \in Listed(pairs, a) :
                           \A j \in Listed(pairs, a) : j <= i][2]

\* Genesis has listed an account twice, with a larger amount first, and the
\* account holds the second amount.
C35_Witness ==
    /\ GenesisBuilt
    /\ Len(call.config.initial_balances) = 2
    /\ call.config.initial_balances[1][1] = call.config.initial_balances[2][1]
    /\ call.config.initial_balances[1][2] > call.config.initial_balances[2][2]
    /\ call.config.initial_balances[2][2] > 0
    /\ Balances[call.config.initial_balances[1][1]] =
          call.config.initial_balances[2][2]

(***************************************************************************)
(* C36: genesis computes TotalSupply as the saturating sum of every amount *)
(* listed in initial_balances: it equals min(sum of all listed amounts,    *)
(* 2^128 - 1), and genesis never fails because of an arithmetic overflow   *)
(* of that sum.                                                            *)
(***************************************************************************)
C36_GenesisSaturatingSupply ==
    (call.op = "build" /\ MetadataFits(call.config))
    => LET pairs == call.config.initial_balances
           sum == SumOver([i \in DOMAIN pairs |-> pairs[i][2]], DOMAIN pairs)
       IN /\ result = "Ok"
          /\ TotalSupply = IF sum < U128_MAX THEN sum ELSE U128_MAX

\* Genesis has listed amounts that sum above the largest value, and the
\* supply is the largest value.
C36_Witness ==
    /\ GenesisBuilt
    /\ LET pairs == call.config.initial_balances
       IN SumOver([i \in DOMAIN pairs |-> pairs[i][2]], DOMAIN pairs) > U128_MAX
    /\ TotalSupply = U128_MAX

(***************************************************************************)
(* C37: immediately after genesis the Whitelist is exactly the genesis     *)
(* admin (if given) together with the accounts of whitelisted_accounts,    *)
(* and Frozen is empty: an account that appears only in initial_balances   *)
(* holds its balance but is not whitelisted, and an account never          *)
(* configured has balance 0, is not whitelisted and is not frozen.         *)
(***************************************************************************)
C37_GenesisMemberships ==
    GenesisBuilt
    => LET cfg == call.config
           listed == {cfg.whitelisted_accounts[i] :
                         i \in DOMAIN cfg.whitelisted_accounts}
           holders == {cfg.initial_balances[i][1] :
                          i \in DOMAIN cfg.initial_balances}
       IN \A a \in AccountId :
            /\ Whitelist[a] <=> (a = cfg.admin \/ a \in listed)
            /\ ~Frozen[a]
            /\ (a \notin holders) => Balances[a] = 0

\* Genesis has given a balance to an account that it did not whitelist,
\* whitelisted its admin and a listed account, and left one account
\* unconfigured.
C37_Witness ==
    /\ GenesisBuilt
    /\ call.config.admin # None
    /\ Len(call.config.whitelisted_accounts) = 1
    /\ call.config.whitelisted_accounts[1] # call.config.admin
    /\ Whitelist[call.config.whitelisted_accounts[1]]
    /\ Whitelist[call.config.admin]
    /\ \E a \in AccountId : Balances[a] > 0 /\ ~Whitelist[a]

(***************************************************************************)
(* C38: once the Admin cell holds an account it is never absent again: no  *)
(* operation clears it, and it changes only through a successful           *)
(* set_admin, to exactly the account given in that call.                   *)
(***************************************************************************)
C38_AdminNeverCleared ==
    [][/\ Admin # None => Admin' # None
       /\ Admin' # Admin => /\ call'.op = "set_admin"
                            /\ result' = "Ok"
                            /\ Admin' = call'.account]_vars

\* A set_admin has replaced a stored admin by another account.
C38_Witness ==
    /\ call.op = "set_admin"
    /\ result = "Ok"
    /\ events[1].old_admin \notin {None, call.account}
    /\ Admin = call.account

\* The account that holds the privileged authority in the current state: the
\* stored admin, or the fallback account while no admin is stored.
Authority == IF Admin # None THEN Admin ELSE CladTokenAdmin

(***************************************************************************)
(* C39: privileged authority does not depend on the compliance flags: the  *)
(* account stored in Admin (or the fallback account while none is stored)  *)
(* passes authorization for every privileged operation also when it is     *)
(* frozen or not whitelisted, while a transfer it signs in that condition  *)
(* is rejected with NotWhitelisted or AccountFrozen, as for any account,   *)
(* and moves nothing.                                                      *)
(***************************************************************************)
C39_AuthorityIgnoresFlags ==
    [][(/\ call'.op \in Operations
        /\ call'.origin = Signed(Authority)
        /\ Frozen[Authority] \/ ~Whitelist[Authority])
       => /\ PrivilegedCall => result' # "BadOrigin"
          /\ TransferCall => /\ result' \in {"NotWhitelisted", "AccountFrozen"}
                             /\ UNCHANGED ledger]_vars

\* The stored admin, frozen and removed from the whitelist, has frozen
\* another account.
C39_Witness ==
    /\ call.op = "freeze"
    /\ result = "Ok"
    /\ Admin # None
    /\ call.origin = Signed(Admin)
    /\ call.account # Admin
    /\ Frozen[Admin]
    /\ ~Whitelist[Admin]

(***************************************************************************)
(* C40: the v1 storage migration sets the on-chain storage version to 1    *)
(* when it is below 1 and otherwise leaves it unchanged (the result is     *)
(* max(previous, 1)); it never lowers the version, running it twice gives  *)
(* the same result as running it once, and it changes no ledger state.     *)
(***************************************************************************)
C40_MigrationToV1 ==
    [][(call'.op = "on_runtime_upgrade")
       => /\ on_chain_storage_version' =
                IF on_chain_storage_version > 1 THEN on_chain_storage_version
                ELSE 1
          /\ on_chain_storage_version' >= on_chain_storage_version
          /\ MigrateToV1(on_chain_storage_version').version =
                on_chain_storage_version'
          /\ UNCHANGED <<ledger, metadata>>]_vars

\* The migration has raised the version from 0 to 1 on a chain that holds
\* tokens.
C40_Witness ==
    /\ call.op = "on_runtime_upgrade"
    /\ result = "reads_writes(1, 1)"
    /\ on_chain_storage_version = 1
    /\ TotalSupply > 0

(***************************************************************************)
(* No call changes the difference between TotalSupply and the sum of the   *)
(* balances: what genesis establishes is what every later state has.       *)
(***************************************************************************)
SupplyGapPreserved ==
    [][TotalSupply' - SumBalances(Balances') =
       TotalSupply - SumBalances(Balances)]_vars

\* No balance exceeds TotalSupply, in every reachable state.
BalanceWithinSupply == \A a \in AccountId : Balances[a] <= TotalSupply

TypeOK ==
    /\ TotalSupply \in u128
    /\ Balances \in [AccountId -> u128]
    /\ Frozen \in [AccountId -> BOOLEAN]
    /\ Whitelist \in [AccountId -> BOOLEAN]
    /\ Admin \in AccountId \cup {None}
    /\ on_chain_storage_version \in 0..MaxStorageVersion

====
